---- MODULE Spec2Model ----
(***************************************************************************)
(* Model of the nextjs-dashboard repository:                               *)
(*   - app/ui/search.tsx     the debounced search box writing the URL      *)
(*   - app/lib/actions.ts    createInvoice / updateInvoice / deleteInvoice *)
(*   - auth.config.ts        the route guard callback `authorized`         *)
(* Strings whose characters matter (URLs, search terms, form amounts,      *)
(* request paths) are sequences of one-character strings.                  *)
(***************************************************************************)
EXTENDS Integers, Sequences, FiniteSets, TLC

VARIABLES
    \* ---- app/ui/search.tsx
    history,     \* browser history: sequence of hrefs, the last one is current
    field,       \* the <input>'s value (uncontrolled, set by the user)
    lastArgs,    \* the argument of the latest handleSearch call (debounce state)
    pending,     \* a debounce timer is armed
    sinceCall,   \* ms elapsed since the latest handleSearch call
    gen,         \* parity of the number of input events (observer)
    burst,       \* length of the current run of inputs less than Wait apart, capped (observer)
    writes,      \* URL writes since the last input event (observer)
    \* ---- app/lib/actions.ts
    store,       \* invoices table: id -> row
    nextId,      \* next id the store assigns on INSERT
    pc,          \* per invocation: idle / awaiting / done
    call,        \* per invocation: the operation, its arguments and parsed data
    result,      \* per invocation: what the caller observes
    trace,       \* per invocation: the effects performed so far, in order
    lastWrite,   \* id -> the columns of the INSERT or UPDATE applied last (observer)
    \* ---- auth.config.ts
    request,     \* the (auth, pathname) the guard was last consulted with
    decision     \* what `authorized` returned for it

searchVars == <<history, field, lastArgs, pending, sinceCall, gen, burst, writes>>
invoiceVars == <<store, nextId, pc, call, result, trace, lastWrite>>
guardVars == <<request, decision>>
vars == <<searchVars, invoiceVars, guardVars>>

(***************************************************************************)
(* Character-sequence helpers.                                             *)
(***************************************************************************)
RECURSIVE Concat(_)
Concat(ss) == IF ss = <<>> THEN <<>> ELSE Head(ss) \o Concat(Tail(ss))

startsWith(s, prefix) ==
    /\ Len(s) >= Len(prefix)
    /\ SubSeq(s, 1, Len(prefix)) = prefix

\* index of the first occurrence of character c in s, 0 when absent
RECURSIVE IndexOf(_, _, _)
IndexOf(s, c, i) ==
    IF i > Len(s) THEN 0
    ELSE IF s[i] = c THEN i
    ELSE IndexOf(s, c, i + 1)

\* s split at every occurrence of the character c
RECURSIVE Split(_, _)
Split(s, c) ==
    LET i == IndexOf(s, c, 1)
    IN  IF i = 0 THEN <<s>>
        ELSE <<SubSeq(s, 1, i - 1)>> \o Split(SubSeq(s, i + 1, Len(s)), c)

(***************************************************************************)
(* URLSearchParams: the application/x-www-form-urlencoded serializer and   *)
(* parser, over the characters the model uses.                             *)
(***************************************************************************)
Unreserved == {"a", "b", "e", "g", "p", "q", "r", "u", "y", "d", "1", "2", "4", "B"}

EncodeChar(c) ==
    IF c \in Unreserved THEN <<c>>
    ELSE IF c = " " THEN <<"+">>
    ELSE IF c = "+" THEN <<"%", "2", "B">>
    ELSE IF c = "&" THEN <<"%", "2", "6">>
    ELSE IF c = "=" THEN <<"%", "3", "D">>
    ELSE IF c = "%" THEN <<"%", "2", "5">>
    ELSE IF c = "?" THEN <<"%", "3", "F">>
    ELSE <<"%", "2", "F">>   \* "/"

RECURSIVE Encode(_)
Encode(s) == IF s = <<>> THEN <<>> ELSE EncodeChar(Head(s)) \o Encode(Tail(s))

HexPairs == {<<"2", "B">>, <<"2", "6">>, <<"3", "D">>, <<"2", "5">>,
             <<"3", "F">>, <<"2", "F">>, <<"4", "1">>}

DecodeHex(h) ==
    IF h = <<"2", "B">> THEN "+"
    ELSE IF h = <<"2", "6">> THEN "&"
    ELSE IF h = <<"3", "D">> THEN "="
    ELSE IF h = <<"2", "5">> THEN "%"
    ELSE IF h = <<"3", "F">> THEN "?"
    ELSE IF h = <<"2", "F">> THEN "/"
    ELSE "A"

\* "+" becomes a space, "%XY" with XY hex becomes the byte, anything else stays
RECURSIVE Decode(_)
Decode(s) ==
    IF s = <<>> THEN <<>>
    ELSE IF Head(s) = "+" THEN <<" ">> \o Decode(Tail(s))
    ELSE IF Head(s) = "%" /\ Len(s) >= 3 /\ SubSeq(s, 2, 3) \in HexPairs
         THEN <<DecodeHex(SubSeq(s, 2, 3))>> \o Decode(SubSeq(s, 4, Len(s)))
    ELSE <<Head(s)>> \o Decode(Tail(s))

Pair(k, v) == [name |-> k, value |-> v]

ParsePair(piece) ==
    LET i == IndexOf(piece, "=", 1)
    IN  IF i = 0 THEN Pair(Decode(piece), <<>>)
        ELSE Pair(Decode(SubSeq(piece, 1, i - 1)),
                  Decode(SubSeq(piece, i + 1, Len(piece))))

RECURSIVE ParsePieces(_)
ParsePieces(pieces) ==
    IF pieces = <<>> THEN <<>>
    ELSE IF Head(pieces) = <<>> THEN ParsePieces(Tail(pieces))
    ELSE <<ParsePair(Head(pieces))>> \o ParsePieces(Tail(pieces))

\* new URLSearchParams(queryString)
ParseQuery(q) == ParsePieces(Split(q, "&"))

RECURSIVE ParamsToString(_)
ParamsToString(params) ==
    IF params = <<>> THEN <<>>
    ELSE Encode(Head(params).name) \o <<"=">> \o Encode(Head(params).value)
         \o (IF Len(params) > 1 THEN <<"&">> ELSE <<>>)
         \o ParamsToString(Tail(params))

RECURSIVE ParamsDelete(_, _)
ParamsDelete(params, k) ==
    IF params = <<>> THEN <<>>
    ELSE IF Head(params).name = k THEN ParamsDelete(Tail(params), k)
    ELSE <<Head(params)>> \o ParamsDelete(Tail(params), k)

\* URLSearchParams.set: the first pair named k takes the value, later ones go,
\* and a missing name is appended
RECURSIVE ParamsSetFrom(_, _, _)
ParamsSetFrom(params, k, v) ==
    IF params = <<>> THEN <<>>
    ELSE IF Head(params).name = k
         THEN <<Pair(k, v)>> \o ParamsDelete(Tail(params), k)
    ELSE <<Head(params)>> \o ParamsSetFrom(Tail(params), k, v)

ParamsHas(params, k) == \E i \in 1..Len(params) : params[i].name = k

ParamsSet(params, k, v) ==
    IF ParamsHas(params, k) THEN ParamsSetFrom(params, k, v)
    ELSE params \o <<Pair(k, v)>>

\* URLSearchParams.get: the first value, or "absent"
ParamsGet(params, k) ==
    IF ParamsHas(params, k)
    THEN [present |-> TRUE,
          value |-> params[CHOOSE i \in 1..Len(params) :
                              /\ params[i].name = k
                              /\ \A j \in 1..(i - 1) : params[j].name # k].value]
    ELSE [present |-> FALSE, value |-> <<>>]

(***************************************************************************)
(* app/ui/search.tsx                                                       *)
(***************************************************************************)
Wait == 750

QueryKey == <<"q", "u", "e", "r", "y">>
PageKey == <<"p", "a", "g", "e">>

\* the values the user can give the search field
Terms ==
    { <<>>,
      <<"a">>,
      <<"a", "b">>,
      <<" ">>,
      <<"a", " ", "b">>,
      <<"a", "+", "b">>,
      <<"a", "&", "b", "=", "1">>,
      <<"%", "4", "1">>,
      <<"?", "/">> }

\* the pages the component can be mounted on: pathname "/d" plus a query
InitialQueries ==
    { <<>>,
      PageKey \o <<"=", "2">>,
      QueryKey \o <<"=", "a">>,
      PageKey \o <<"=", "2", "&">> \o QueryKey \o <<"=", "a", "+", "b">>,
      QueryKey \o <<"=", "a", "&">> \o PageKey \o <<"=", "2", "&">>
          \o QueryKey \o <<"=", "b">> }

Href(path, query) == IF query = <<>> THEN path ELSE path \o <<"?">> \o query

Current == history[Len(history)]

\* usePathname(): the current href up to its "?"
PathOf(href) ==
    LET i == IndexOf(href, "?", 1)
    IN  IF i = 0 THEN href ELSE SubSeq(href, 1, i - 1)

QueryOf(href) ==
    LET i == IndexOf(href, "?", 1)
    IN  IF i = 0 THEN <<>> ELSE SubSeq(href, i + 1, Len(href))

\* useSearchParams(): the current href's query, parsed
SearchParamsOf(href) == ParseQuery(QueryOf(href))

\* the field's defaultValue: searchParams.get('query')?.toString()
DefaultValue(href) ==
    LET g == ParamsGet(SearchParamsOf(href), QueryKey)
    IN  IF g.present THEN g.value ELSE <<>>

\* a faulty variant of handleSearch: an empty term sets query to "" instead of deleting it,
\* and a set appends instead of replacing
handleSearchKeepEmpty(term, searchParams, pathname) ==
    pathname \o <<"?">> \o
        ParamsToString(ParamsDelete(searchParams, QueryKey) \o <<Pair(QueryKey, term)>>)

\* the body of the debounced callback: the href handed to replace()
handleSearch(term, searchParams, pathname) ==
    LET params == IF term # <<>>
                  THEN ParamsSet(searchParams, QueryKey, term)
                  ELSE ParamsDelete(searchParams, QueryKey)
    IN  pathname \o <<"?">> \o ParamsToString(params)

\* router.replace(href): the current history entry is overwritten
replace(h, href) == [h EXCEPT ![Len(h)] = href]

\* a faulty variant of shouldInvoke: the timer runs a third of the wait
shouldInvokeEarly(elapsed) == elapsed >= Wait \div 3

\* the trailing edge of useDebouncedCallback(fn, 750): the wait has elapsed
\* since the latest call
shouldInvoke(elapsed) == elapsed >= Wait

\* the instants the model observes after a call; the last stands for "later"
TimePoints == {0, Wait \div 3, Wait - 1, Wait, Wait + 1, 2 * Wait}

InitSearch ==
    /\ history = << <<"/">> >>
    /\ field = <<>>
    /\ lastArgs = <<>>
    /\ pending = FALSE
    /\ sinceCall = 0
    /\ gen = 0
    /\ burst = 0
    /\ writes = 0

Mounted == Len(history) > 1

\* the user opens the page: its href is pushed and <Search> mounts, the field
\* showing defaultValue
Mount(q) ==
    /\ ~Mounted
    /\ history' = Append(history, Href(<<"/", "d">>, q))
    /\ field' = DefaultValue(Href(<<"/", "d">>, q))
    /\ UNCHANGED <<lastArgs, pending, sinceCall, gen, burst, writes>>
    /\ UNCHANGED <<invoiceVars, guardVars>>

\* <input onChange>: every change of the field calls the debounced handleSearch,
\* which remembers the argument and restarts the timer
OnChange(t) ==
    /\ Mounted
    /\ t # field
    /\ field' = t
    /\ lastArgs' = t
    /\ pending' = TRUE
    /\ sinceCall' = 0
    /\ gen' = 1 - gen
    /\ burst' = IF pending /\ sinceCall < Wait
                THEN (IF burst < 2 THEN burst + 1 ELSE burst)
                ELSE 1
    /\ writes' = 0
    /\ UNCHANGED history
    /\ UNCHANGED <<invoiceVars, guardVars>>

\* time passes while a timer is armed; the timer may fire late
Tick ==
    /\ pending
    /\ \E t \in TimePoints : t > sinceCall /\ sinceCall' = t
    /\ UNCHANGED <<history, field, lastArgs, pending, gen, burst, writes>>
    /\ UNCHANGED <<invoiceVars, guardVars>>

\* a due timer expires and is disarmed
Expire ==
    /\ pending
    /\ shouldInvoke(sinceCall)
    /\ pending' = FALSE

\* the timer expires: the callback runs with the latest argument
TimerFire ==
    /\ Expire
    /\ history' = replace(history,
                          handleSearch(lastArgs, SearchParamsOf(Current), PathOf(Current)))
    /\ writes' = writes + 1
    /\ UNCHANGED <<field, lastArgs, sinceCall, gen, burst>>
    /\ UNCHANGED <<invoiceVars, guardVars>>

NextSearch ==
    \/ \E q \in InitialQueries : Mount(q)
    \/ \E t \in Terms : OnChange(t)
    \/ Tick
    \/ TimerFire

(***************************************************************************)
(* auth.config.ts                                                          *)
(***************************************************************************)
MaxPathLen == 3

Slash == <<"/">>
Dashboard == <<"d", "a", "s", "h", "b", "o", "a", "r", "d">>
Login == <<"l", "o", "g", "i", "n">>
About == <<"a", "b", "o", "u", "t">>

PathTokens == {Slash, Dashboard, Login, About, <<"x">>}

\* request pathnames: "/" followed by up to MaxPathLen tokens
Pathnames ==
    { Slash \o Concat(ts) : ts \in UNION { [1..n -> PathTokens] : n \in 0..MaxPathLen } }

\* the `auth` argument: null, a session without a user, a session with its user
NoSession == [session |-> FALSE, user |-> FALSE]
AuthInputs == { NoSession,
                [session |-> TRUE, user |-> FALSE],
                [session |-> TRUE, user |-> TRUE] }

Allow == [kind |-> "allow", to |-> <<>>]
Deny == [kind |-> "deny", to |-> <<>>]
RedirectTo(path) == [kind |-> "redirect", to |-> path]

\* a faulty variant of authorized: a logged-in user is let through everywhere
authorizedNoRedirect(auth, pathname) ==
    IF startsWith(pathname, Slash \o Dashboard)
    THEN (IF auth.session /\ auth.user THEN Allow ELSE Deny)
    ELSE Allow

\* callbacks.authorized({ auth, request: { nextUrl } })
authorized(auth, pathname) ==
    LET isLoggedIn == auth.session /\ auth.user
        isOnDashboard == startsWith(pathname, Slash \o Dashboard)
    IN  IF isOnDashboard
        THEN (IF isLoggedIn THEN Allow ELSE Deny)
        ELSE IF isLoggedIn THEN RedirectTo(Slash \o Dashboard)
        ELSE Allow

InitGuard ==
    /\ request = [auth |-> NoSession, path |-> Slash]
    /\ decision = authorized(NoSession, Slash)

\* the middleware consults the guard for an incoming request
Authorize(a, p) ==
    /\ request' = [auth |-> a, path |-> p]
    /\ decision' = authorized(a, p)
    /\ UNCHANGED <<searchVars, invoiceVars>>

NextGuard == \E a \in AuthInputs, p \in Pathnames : Authorize(a, p)

(***************************************************************************)
(* app/lib/actions.ts                                                      *)
(* Numbers are held as their value times 1000, so that three decimals are  *)
(* exact: 12.5 is 12500 and 0.001 is 1.  The product amount * 100 is       *)
(* computed exactly; the binary64 rounding of JavaScript's `*` is not      *)
(* modelled.                                                               *)
(***************************************************************************)
MaxRows == 2

\* the calendar days a request can arrive on
Days == {1, 2}

Procs == {"r1", "r2"}   \* server-action invocations that may be in flight at once
Ids == 1..MaxRows

Unit == 10 * 10 * 10
IsInteger(x) == x % Unit = 0

\* FormData.get(name): a string, or null when the field is missing
Missing == [null |-> TRUE, str |-> ""]
Str(s) == [null |-> FALSE, str |-> s]
MissingAmount == [null |-> TRUE, str |-> <<>>]

Digits == {"0", "1", "2", "5", "7"}
DigitVal(c) ==
    IF c = "0" THEN 0 ELSE IF c = "1" THEN 1 ELSE IF c = "2" THEN 2
    ELSE IF c = "5" THEN 5 ELSE 7

RECURSIVE TrimLeft(_)
TrimLeft(s) == IF s # <<>> /\ Head(s) = " " THEN TrimLeft(Tail(s)) ELSE s

RECURSIVE TrimRight(_)
TrimRight(s) ==
    IF s # <<>> /\ s[Len(s)] = " " THEN TrimRight(SubSeq(s, 1, Len(s) - 1)) ELSE s

RECURSIVE IntVal(_)
IntVal(ds) ==
    IF ds = <<>> THEN 0
    ELSE IntVal(SubSeq(ds, 1, Len(ds) - 1)) * 10 + DigitVal(ds[Len(ds)])

\* the fraction digits .abc as thousandths (digits past the third are below
\* the resolution of the model; no input has them)
FracVal(ds) ==
    (IF Len(ds) >= 1 THEN DigitVal(ds[1]) * 100 ELSE 0)
    + (IF Len(ds) >= 2 THEN DigitVal(ds[2]) * 10 ELSE 0)
    + (IF Len(ds) >= 3 THEN DigitVal(ds[3]) ELSE 0)

NaN == [nan |-> TRUE, milli |-> 0]
Num(m) == [nan |-> FALSE, milli |-> m]

\* JavaScript Number(string): whitespace trimmed, "" is 0, an optional sign,
\* digits with an optional fraction, anything else NaN
StringToNumber(s) ==
    LET t == TrimRight(TrimLeft(s))
        signed == t # <<>> /\ Head(t) \in {"-", "+"}
        body == IF signed THEN Tail(t) ELSE t
        dot == IndexOf(body, ".", 1)
        int == IF dot = 0 THEN body ELSE SubSeq(body, 1, dot - 1)
        frac == IF dot = 0 THEN <<>> ELSE SubSeq(body, dot + 1, Len(body))
        wellFormed == /\ \A i \in 1..Len(int) : int[i] \in Digits
                      /\ \A i \in 1..Len(frac) : frac[i] \in Digits
                      /\ Len(int) + Len(frac) > 0
        magnitude == IntVal(int) * Unit + FracVal(frac)
    IN  IF t = <<>> THEN Num(0)
        ELSE IF ~wellFormed THEN NaN
        ELSE IF signed /\ Head(t) = "-" THEN Num(0 - magnitude)
        ELSE Num(magnitude)

\* zod.coerce.number(): Number(input); Number(null) is 0
CoerceNumber(v) == IF v.null THEN Num(0) ELSE StringToNumber(v.str)

StatusValues == {"pending", "paid"}

\* customerId: zod.string({ invalid_type_error })
customerIdIssues(v) ==
    IF v.null THEN <<"Please select a customer.">> ELSE <<>>

\* a faulty variant of amountIssues: .gte(0) for .gt(0)
amountIssuesGte(v) ==
    LET n == CoerceNumber(v)
    IN  IF n.nan THEN <<"Expected number, received nan">>
        ELSE IF ~(n.milli >= 0) THEN <<"Please enter an amount greater than $0.">>
        ELSE <<>>

\* amount: zod.coerce.number().gt(0, { message })
amountIssues(v) ==
    LET n == CoerceNumber(v)
    IN  IF n.nan THEN <<"Expected number, received nan">>
        ELSE IF ~(n.milli > 0) THEN <<"Please enter an amount greater than $0.">>
        ELSE <<>>

\* status: zod.enum(['pending', 'paid'], { invalid_type_error })
statusIssues(v) ==
    IF v.null THEN <<"Please select an invoice status.">>
    ELSE IF v.str \notin StatusValues
         THEN <<"Invalid enum value. Expected 'pending' | 'paid'">>
    ELSE <<>>

FieldNames == {"customerId", "amount", "status"}

Issues(f, form) ==
    IF f = "customerId" THEN customerIdIssues(form.customerId)
    ELSE IF f = "amount" THEN amountIssues(form.amount)
    ELSE statusIssues(form.status)

\* CreateInvoice.safeParse / UpdateInvoice.safeParse (the same schema):
\* success with the coerced data, or error.flatten().fieldErrors
safeParse(form) ==
    LET failed == { f \in FieldNames : Issues(f, form) # <<>> }
    IN  [success |-> failed = {},
         fieldErrors |-> [f \in failed |-> Issues(f, form)],
         customerId |-> form.customerId.str,
         amount |-> CoerceNumber(form.amount).milli,
         status |-> form.status.str]

\* the forms submitted
Form(c, a, s) == [customerId |-> c, amount |-> a, status |-> s]
NoForm == Form(Missing, MissingAmount, Missing)
Amount1250 == Str(<<"1", "2", ".", "5", "0">>)
AmountSubCent == Str(<<"0", ".", "0", "0", "1">>)
Forms ==
    { Form(Str("c1"), Amount1250, Str("pending")),
      Form(Str(""), AmountSubCent, Str("paid")),
      Form(Str("c1"), Str(<<"0">>), Str("pending")),
      Form(Str("c1"), Str(<<"1", "a">>), Str("archived")),
      Form(Missing, Str(<<" ", "-", "5">>), Str("Paid")),
      NoForm }

InvoicesPath == "/dashboard/invoices"

\* the row a statement writes
Row(c, a, s, d) == [customer_id |-> c, amount |-> a, status |-> s, date |-> d]

\* INSERT INTO invoices (customer_id, amount, status, date) VALUES (...)
Insert(rows, id, row) ==
    [i \in DOMAIN rows \cup {id} |-> IF i = id THEN row ELSE rows[i]]

\* a faulty variant of UpdateWhere: the WHERE clause is lost
UpdateAll(rows, id, c, a, s) ==
    [i \in DOMAIN rows |-> [rows[i] EXCEPT !.customer_id = c, !.amount = a, !.status = s]]

\* a faulty variant of UpdateWhere: the status column is left out of the SET list
UpdateWhereNoStatus(rows, id, c, a, s) ==
    [i \in DOMAIN rows |->
        IF i = id THEN [rows[i] EXCEPT !.customer_id = c, !.amount = a] ELSE rows[i]]

\* UPDATE invoices SET customer_id, amount, status WHERE id = ...
UpdateWhere(rows, id, c, a, s) ==
    [i \in DOMAIN rows |->
        IF i = id
        THEN [rows[i] EXCEPT !.customer_id = c, !.amount = a, !.status = s]
        ELSE rows[i]]

\* DELETE FROM invoices WHERE id = ...
DeleteWhere(rows, id) == [i \in DOMAIN rows \ {id} |-> rows[i]]

\* const amountInCents = amount * 100
amountInCents(amount) == amount * 100

NoValue == "<undefined>"
NoErrors == [f \in {} |-> <<>>]
NoResult == [outcome |-> "none", keys |-> {}, errors |-> NoErrors,
             message |-> NoValue, meassage |-> NoValue, target |-> NoValue]
NoCall == [op |-> "none", id |-> 0, form |-> NoForm, date |-> 0]

\* return { errors, message } after a failed validation
ValidationFailure(fieldErrors, verb) ==
    [outcome |-> "return", keys |-> {"errors", "message"}, errors |-> fieldErrors,
     message |-> IF verb = "create" THEN "Missing Fields. Failed to Create Invoice."
                 ELSE "Missing Fields. Failed to Update Invoice.",
     meassage |-> NoValue, target |-> NoValue]

\* what each catch block returns
StoreFailure(op) ==
    IF op = "create"
    THEN [NoResult EXCEPT !.outcome = "return", !.keys = {"message"},
                          !.message = "Database Error: Failed to Create Invoice."]
    ELSE IF op = "update"
    THEN [NoResult EXCEPT !.outcome = "return", !.keys = {"message"},
                          !.message = "Database Error: Failed to Update Invoice."]
    ELSE [NoResult EXCEPT !.outcome = "return", !.keys = {"meassage"},
                          !.meassage = "Database Error: Failed to delete invoice"]

\* a faulty variant of SuccessEffects: the redirect precedes the invalidation, and
\* delete redirects too
SuccessEffectsRedirectFirst(op) == <<"redirect", "invalidate">>

\* after the awaited write: revalidatePath, then redirect for create and update
SuccessEffects(op) ==
    IF op = "delete" THEN <<"invalidate">> ELSE <<"invalidate", "redirect">>

\* what the caller gets once the effects are done: redirect() throws the
\* framework's redirect, outside every try block; delete returns undefined
SuccessResult(effects) ==
    IF \E i \in 1..Len(effects) : effects[i] = "redirect"
    THEN [NoResult EXCEPT !.outcome = "redirect", !.target = InvoicesPath]
    ELSE [NoResult EXCEPT !.outcome = "return"]

Put(f, k, v) == [i \in DOMAIN f \cup {k} |-> IF i = k THEN v ELSE f[i]]
Drop(f, k) == [i \in DOMAIN f \ {k} |-> f[i]]

Columns(c, a, s) == [customer_id |-> c, amount |-> a, status |-> s]

InitInvoice ==
    /\ store = [i \in {} |-> Row("", 0, "", 0)]
    /\ nextId = 1
    /\ pc = [p \in Procs |-> "idle"]
    /\ call = [p \in Procs |-> NoCall]
    /\ result = [p \in Procs |-> NoResult]
    /\ trace = [p \in Procs |-> <<>>]
    /\ lastWrite = [i \in {} |-> Columns("", 0, "")]

\* a request takes slot r1 when it is idle, and r2 only while r1 is in flight
Free(p) ==
    /\ pc[p] = "idle"
    /\ p = "r2" => pc["r1"] = "awaiting"

\* the synchronous head shared by createInvoice and updateInvoice: safeParse,
\* the early return on failure, else the date and the statement handed to
\* `await sql`
Submit(p, op, id, form, day) ==
    LET v == safeParse(form)
    IN  /\ trace' = [trace EXCEPT ![p] = <<"validate">>]
        /\ IF v.success
           THEN /\ pc' = [pc EXCEPT ![p] = "awaiting"]
                /\ call' = [call EXCEPT ![p] =
                               [op |-> op, id |-> id, form |-> form,
                                date |-> IF op = "create" THEN day ELSE 0]]
                /\ UNCHANGED result
           ELSE /\ pc' = [pc EXCEPT ![p] = "done"]
                /\ call' = [call EXCEPT ![p] =
                               [op |-> op, id |-> id, form |-> form, date |-> 0]]
                /\ result' = [result EXCEPT ![p] = ValidationFailure(v.fieldErrors, op)]
        /\ UNCHANGED <<store, nextId, lastWrite>>
        /\ UNCHANGED <<searchVars, guardVars>>

\* `day` is what new Date().toISOString().split('T')[0] gives at the call
createInvoice(p, form, day) ==
    /\ Free(p)
    /\ Submit(p, "create", 0, form, day)

updateInvoice(p, id, form) ==
    /\ Free(p)
    /\ Submit(p, "update", id, form, 0)

\* deleteInvoice(id) up to its `await sql`: nothing is validated
deleteInvoice(p, id) ==
    /\ Free(p)
    /\ pc' = [pc EXCEPT ![p] = "awaiting"]
    /\ call' = [call EXCEPT ![p] = [op |-> "delete", id |-> id, form |-> NoForm, date |-> 0]]
    /\ trace' = [trace EXCEPT ![p] = <<>>]
    /\ UNCHANGED <<store, nextId, result, lastWrite>>
    /\ UNCHANGED <<searchVars, guardVars>>

\* the statement of an invocation, run by the store as one atomic step
Execute(rows, c, id) ==
    LET v == safeParse(c.form)
        cents == amountInCents(v.amount)
    IN  IF c.op = "create"
        THEN Insert(rows, id, Row(v.customerId, cents, v.status, c.date))
        ELSE IF c.op = "update"
        THEN UpdateWhere(rows, c.id, v.customerId, cents, v.status)
        ELSE DeleteWhere(rows, c.id)

\* the columns an INSERT or UPDATE carries
Written(c) ==
    LET v == safeParse(c.form)
    IN  Columns(v.customerId, amountInCents(v.amount), v.status)

\* `await sql` succeeds and the function runs to its end: the statement is
\* applied, then revalidatePath and, for create and update, redirect
Succeed(p) ==
    LET c == call[p]
    IN  /\ pc[p] = "awaiting"
        /\ c.op = "create" => nextId <= MaxRows
        /\ store' = Execute(store, c, nextId)
        /\ nextId' = IF c.op = "create" THEN nextId + 1 ELSE nextId
        /\ lastWrite' = IF c.op = "create" THEN Put(lastWrite, nextId, Written(c))
                        ELSE IF c.op = "delete" THEN Drop(lastWrite, c.id)
                        ELSE IF c.id \in DOMAIN store THEN Put(lastWrite, c.id, Written(c))
                        ELSE lastWrite
        /\ pc' = [pc EXCEPT ![p] = "done"]
        /\ trace' = [trace EXCEPT ![p] = Append(@, "write") \o SuccessEffects(c.op)]
        /\ result' = [result EXCEPT ![p] = SuccessResult(SuccessEffects(c.op))]
        /\ UNCHANGED call
        /\ UNCHANGED <<searchVars, guardVars>>

\* `await sql` throws: nothing is written and the catch block returns
Fail(p) ==
    /\ pc[p] = "awaiting"
    /\ pc' = [pc EXCEPT ![p] = "done"]
    /\ result' = [result EXCEPT ![p] = StoreFailure(call[p].op)]
    /\ UNCHANGED <<store, nextId, call, trace, lastWrite>>
    /\ UNCHANGED <<searchVars, guardVars>>

\* the caller has consumed the outcome; the slot serves the next request
Finish(p) ==
    /\ pc[p] = "done"
    /\ pc' = [pc EXCEPT ![p] = "idle"]
    /\ call' = [call EXCEPT ![p] = NoCall]
    /\ result' = [result EXCEPT ![p] = NoResult]
    /\ trace' = [trace EXCEPT ![p] = <<>>]
    /\ UNCHANGED <<store, nextId, lastWrite>>
    /\ UNCHANGED <<searchVars, guardVars>>

NextInvoice ==
    \/ \E p \in Procs, f \in Forms, d \in Days : createInvoice(p, f, d)
    \/ \E p \in Procs, i \in Ids, f \in Forms : updateInvoice(p, i, f)
    \/ \E p \in Procs, i \in Ids : deleteInvoice(p, i)
    \/ \E p \in Procs : Succeed(p)
    \/ \E p \in Procs : Fail(p)
    \/ \E p \in Procs : Finish(p)

(***************************************************************************)
(* Specifications.  The three units share no state; each is also checked   *)
(* on its own, the other two idle.                                         *)
(***************************************************************************)
Init == InitSearch /\ InitInvoice /\ InitGuard

Next == NextSearch \/ NextInvoice \/ NextGuard

Spec == Init /\ [][Next]_vars

\* time does not stop while a timer is armed, and the browser's event loop
\* runs a timer that stays due (its expiry is the whole of TimerFire's guard)
SearchSpec == Init /\ [][NextSearch]_vars /\ WF_vars(Tick) /\ WF_pending(Expire)

InvoiceSpec == Init /\ [][NextInvoice]_vars

GuardSpec == Init /\ [][NextGuard]_vars

(***************************************************************************)
(* Properties of the search box (SearchSpec).                              *)
(***************************************************************************)

\* C1: the URL is written only by a timer that has waited at least 750 ms
\* since the latest input; what is written is the latest input; at most one
\* write follows an input; and every input is followed by its write unless a
\* newer input supersedes it.
C1_Debounce ==
    /\ [][writes' > writes =>
            /\ pending /\ ~pending'
            /\ sinceCall >= Wait
            /\ writes = 0
            /\ lastArgs = field
            /\ DefaultValue(Current') = field]_vars
    /\ \A g \in {0, 1} :
          (pending /\ gen = g) ~> ((~pending /\ writes = 1) \/ gen # g)

\* a run of at least two rapid inputs has ended in one write of the last value
C1_Witness ==
    /\ burst >= 2
    /\ writes = 1
    /\ ~pending
    /\ field # <<>>
    /\ DefaultValue(Current) = field

\* C8: a firing handler replaces the current history entry, keeps the path,
\* sets `query` to exactly the term or removes it when the term is empty, and
\* carries every other parameter over unchanged.
C8_ReplaceQuery ==
    [][writes' > writes =>
         LET old == SearchParamsOf(Current)
             new == SearchParamsOf(Current')
         IN  /\ Len(history') = Len(history)
             /\ \A i \in 1..(Len(history) - 1) : history'[i] = history[i]
             /\ PathOf(Current') = PathOf(Current)
             /\ lastArgs # <<>> =>
                    ParamsGet(new, QueryKey) = [present |-> TRUE, value |-> lastArgs]
             /\ lastArgs = <<>> => ~ParamsHas(new, QueryKey)
             /\ ParamsDelete(new, QueryKey) = ParamsDelete(old, QueryKey)]_vars

\* a term with reserved characters has been written beside another parameter
C8_Witness ==
    /\ writes = 1
    /\ lastArgs = <<"a", "&", "b", "=", "1">>
    /\ ParamsGet(SearchParamsOf(Current), QueryKey).value = lastArgs
    /\ ParamsGet(SearchParamsOf(Current), PageKey) = [present |-> TRUE, value |-> <<"2">>]

(***************************************************************************)
(* Properties of the route guard (GuardSpec).                              *)
(***************************************************************************)

\* C7: under /dashboard the guard allows exactly the requests with a session
\* (one that carries a user) and denies the others; elsewhere it redirects a
\* session to /dashboard and allows the rest.
C7_Guard ==
    LET session == request.auth.user
        protected == startsWith(request.path, Slash \o Dashboard)
    IN  /\ protected /\ session => decision = Allow
        /\ protected /\ ~session => decision = Deny
        /\ ~protected /\ session => decision = RedirectTo(Slash \o Dashboard)
        /\ ~protected /\ ~session => decision = Allow
        /\ request.path = Slash \o Dashboard \o Slash \o <<"x">> /\ ~session
              => decision.kind = "deny"
        /\ request.path = Slash \o Login /\ session
              => decision.kind = "redirect" /\ decision.to = Slash \o Dashboard
        /\ request.path = Slash \o About /\ ~session
              => decision.kind = "allow"

\* an authenticated request for /login has been redirected
C7_Witness ==
    /\ request.auth.user
    /\ request.path = Slash \o Login
    /\ decision.kind = "redirect"

(***************************************************************************)
(* Properties of the invoice actions (InvoiceSpec).                        *)
(***************************************************************************)
Has(t, e) == \E i \in 1..Len(t) : t[i] = e
Count(t, e) == Cardinality({ i \in 1..Len(t) : t[i] = e })
ColumnsOf(row) == Columns(row.customer_id, row.amount, row.status)

\* the fields that fail the schema, as the claim lists them
FailingFields(form) ==
    { f \in FieldNames :
        \/ f = "customerId" /\ form.customerId.null
        \/ f = "amount" /\ (CoerceNumber(form.amount).nan
                              \/ CoerceNumber(form.amount).milli <= 0)
        \/ f = "status" /\ (form.status.null \/ form.status.str \notin {"pending", "paid"}) }

\* C2: create and update with failing fields return, as a value, an error
\* list for each failing field and the fixed summary; nothing is written,
\* invalidated or redirected, and no statement is ever issued for them.
C2_ValidationFailure ==
    \A p \in Procs :
        (call[p].op \in {"create", "update"} /\ FailingFields(call[p].form) # {}) =>
            /\ pc[p] = "done"
            /\ result[p].outcome = "return"
            /\ result[p].keys = {"errors", "message"}
            /\ DOMAIN result[p].errors = FailingFields(call[p].form)
            /\ \A f \in DOMAIN result[p].errors : Len(result[p].errors[f]) > 0
            /\ result[p].message =
                  (IF call[p].op = "create"
                   THEN "Missing Fields. Failed to Create Invoice."
                   ELSE "Missing Fields. Failed to Update Invoice.")
            /\ trace[p] = <<"validate">>

\* create with amount "0" has returned a field error on amount alone
C2_Witness ==
    \E p \in Procs :
        /\ pc[p] = "done"
        /\ call[p].op = "create"
        /\ call[p].form.amount = Str(<<"0">>)
        /\ DOMAIN result[p].errors = {"amount"}

\* an invocation whose statement the store rejected
StoreFailed(p) ==
    /\ pc[p] = "done"
    /\ ~Has(trace[p], "write")
    /\ call[p].op = "delete" \/ FailingFields(call[p].form) = {}

\* C3: a failed store write is returned as a result whose only field is
\* message, with the generic text of the operation; nothing is invalidated
\* or redirected.
C3_StoreFailure ==
    \A p \in Procs :
        StoreFailed(p) =>
            /\ result[p].outcome = "return"
            /\ result[p].keys = {"message"}
            /\ result[p].message =
                  (IF call[p].op = "create" THEN "Database Error: Failed to Create Invoice."
                   ELSE IF call[p].op = "update"
                   THEN "Database Error: Failed to Update Invoice."
                   ELSE "Database Error: Failed to Delete Invoice.")
            /\ ~Has(trace[p], "invalidate")
            /\ ~Has(trace[p], "redirect")

\* C4: the effects of an invocation come in the order validate, write,
\* invalidate, redirect; create and update end in the redirect, delete ends
\* with the invalidation and never redirects.
C4_Order ==
    \A p \in Procs :
        LET t == trace[p]
        IN  /\ \A i \in 1..Len(t) :
                  /\ t[i] = "write" /\ call[p].op # "delete" =>
                        i > 1 /\ t[i - 1] = "validate"
                  /\ t[i] = "invalidate" => i > 1 /\ t[i - 1] = "write"
                  /\ t[i] = "redirect" => i > 1 /\ t[i - 1] = "invalidate"
            /\ Has(t, "redirect") => call[p].op # "delete"
            /\ (pc[p] = "done" /\ Has(t, "write")) =>
                  IF call[p].op = "delete"
                  THEN /\ t = <<"write", "invalidate">>
                       /\ result[p].outcome = "return"
                       /\ result[p].keys = {}
                  ELSE /\ t = <<"validate", "write", "invalidate", "redirect">>
                       /\ result[p].outcome = "redirect"
                       /\ result[p].target = InvoicesPath

\* a create has written, invalidated and redirected
C4_Witness ==
    \E p \in Procs :
        /\ call[p].op = "create"
        /\ trace[p] = <<"validate", "write", "invalidate", "redirect">>
        /\ result[p].outcome = "redirect"

\* C5: every row has amount > 0, a status of pending or paid and a
\* non-empty customer identifier.
C5_RowInvariant ==
    \A i \in DOMAIN store :
        /\ store[i].amount > 0
        /\ store[i].status \in {"pending", "paid"}
        /\ store[i].customer_id # ""

\* C6: a validated amount is written as a whole number of minor units, 100
\* times the submitted amount.
C6_MinorUnits ==
    \A p \in Procs :
        (call[p].op \in {"create", "update"} /\ pc[p] = "awaiting") =>
            /\ Written(call[p]).amount = 100 * CoerceNumber(call[p].form.amount).milli
            /\ IsInteger(Written(call[p]).amount)

\* C9: a successful update rewrites the three columns of the row with the
\* given id and nothing else; a successful delete removes that row and
\* nothing else; with no such row the store is unchanged and the invocation
\* still succeeds.
C9_Frame ==
    [][\A p \in Procs :
          (pc[p] = "awaiting" /\ pc'[p] = "done" /\ Has(trace'[p], "write")) =>
              LET c == call[p]
              IN  /\ c.op = "update" =>
                        /\ DOMAIN store' = DOMAIN store
                        /\ \A i \in DOMAIN store :
                              IF i = c.id
                              THEN /\ ColumnsOf(store'[i]) = Written(c)
                                   /\ store'[i].date = store[i].date
                              ELSE store'[i] = store[i]
                        /\ result'[p].outcome = "redirect"
                        /\ Has(trace'[p], "invalidate")
                  /\ c.op = "delete" =>
                        /\ DOMAIN store' = DOMAIN store \ {c.id}
                        /\ \A i \in DOMAIN store' : store'[i] = store[i]
                        /\ result'[p].outcome = "return"
                        /\ result'[p].keys = {}
                        /\ Has(trace'[p], "invalidate")
                  /\ (c.op \in {"update", "delete"} /\ c.id \notin DOMAIN store) =>
                        store' = store]_vars

\* an update has rewritten its row beside another row that differs from it
C9_Witness ==
    \E p \in Procs :
        /\ pc[p] = "done"
        /\ call[p].op = "update"
        /\ Has(trace[p], "write")
        /\ call[p].id \in DOMAIN store
        /\ ColumnsOf(store[call[p].id]) = Written(call[p])
        /\ \E j \in DOMAIN store :
              j # call[p].id /\ ColumnsOf(store[j]) # Written(call[p])

\* two updates of the same id, both written
BothUpdated(p, q) ==
    /\ p # q
    /\ pc[p] = "done" /\ pc[q] = "done"
    /\ call[p].op = "update" /\ call[q].op = "update"
    /\ call[p].id = call[q].id
    /\ Has(trace[p], "write") /\ Has(trace[q], "write")

\* C10: two updates of one id each write once and both succeed, and the row
\* holds the whole triple of the write applied last, which is one of the two.
C10_LastWriteWins ==
    \A p, q \in Procs :
        BothUpdated(p, q) =>
            /\ Count(trace[p], "write") = 1 /\ Count(trace[q], "write") = 1
            /\ result[p].outcome = "redirect" /\ result[q].outcome = "redirect"
            /\ call[p].id \in DOMAIN store =>
                  /\ ColumnsOf(store[call[p].id]) = lastWrite[call[p].id]
                  /\ ColumnsOf(store[call[p].id]) \in {Written(call[p]), Written(call[q])}

\* two updates that differ in every column have both been applied to a row
C10_Witness ==
    \E p, q \in Procs :
        /\ BothUpdated(p, q)
        /\ call[p].id \in DOMAIN store
        /\ Written(call[p]).customer_id # Written(call[q]).customer_id
        /\ Written(call[p]).amount # Written(call[q]).amount
        /\ Written(call[p]).status # Written(call[q]).status
        /\ ColumnsOf(store[call[p].id]) = Written(call[q])

====
